---- MODULE Spec2Model ----
(***************************************************************************)
(* News Review API (server.py): the job registry JOBS, the two HTTP        *)
(* handlers start_review / get_review, the background task run_review and  *)
(* the analyzer analyze_with_llm, with the document store and the language *)
(* model as nondeterministic environments.                                 *)
(***************************************************************************)
EXTENDS Integers, Sequences, FiniteSets, TLC

(***************************************************************************)
(* Bounds of the explored input space.                                     *)
(***************************************************************************)
\* articles the store returns for one lookup, single-job specification
MaxArticles == 3
\* jobs started in the concurrent specification
MaxJobs == 2
\* articles the store returns for one lookup, concurrent specification
MaxJobArticles == 1

(***************************************************************************)
(* Python values.  A value is a record [t, v]: t is the Python type, v the *)
(* payload (a sequence of one-character strings for str, a sequence of     *)
(* values for list, a sequence of [k, x] items in insertion order for      *)
(* dict).  None has no payload.                                            *)
(***************************************************************************)
PyNone == [t |-> "NoneType"]
PyBool(b) == [t |-> "bool", v |-> b]
PyInt(n) == [t |-> "int", v |-> n]
PyStr(s) == [t |-> "str", v |-> s]
PyList(xs) == [t |-> "list", v |-> xs]
PyDict(items) == [t |-> "dict", v |-> items]

\* bool(x): Python truthiness, as used by `if v.get("flag")` and `x or []`
Truthy(x) ==
    CASE x.t = "NoneType" -> FALSE
      [] x.t = "bool" -> x.v
      [] x.t = "int" -> x.v # 0
      [] OTHER -> Len(x.v) > 0

\* k in d
DictHas(d, k) == \E n \in 1..Len(d.v) : d.v[n].k = k

\* d.get(k): the value stored under k, None when k is absent
DictGet(d, k) ==
    IF DictHas(d, k)
    THEN d.v[CHOOSE n \in 1..Len(d.v) : d.v[n].k = k].x
    ELSE PyNone

\* d[k] = x: an existing key keeps its position, a new key goes last
DictSet(d, k, x) ==
    IF DictHas(d, k)
    THEN PyDict([n \in 1..Len(d.v) |->
                    IF d.v[n].k = k THEN [k |-> k, x |-> x] ELSE d.v[n]])
    ELSE PyDict(Append(d.v, [k |-> k, x |-> x]))

\* d.setdefault(k, x): insert x under k only when k is absent
SetDefault(d, k, x) == IF DictHas(d, k) THEN d ELSE DictSet(d, k, x)

\* x[:n] for the sliceable types str and list
Slice(x, n) == [t |-> x.t, v |-> SubSeq(x.v, 1, IF Len(x.v) < n THEN Len(x.v) ELSE n)]

\* the outcome of a computation: a value, or a raised exception with str(e)
Ok(x) == [ok |-> TRUE, val |-> x]
Raise(msg) == [ok |-> FALSE, err |-> msg]

(***************************************************************************)
(* JSON text.  A model response body is None, text that is not JSON, or a  *)
(* JSON document: a tree [t, v] whose objects are member lists in which a  *)
(* name may occur more than once.                                          *)
(***************************************************************************)
JNull == [t |-> "null"]
JBool(b) == [t |-> "boolean", v |-> b]
JNum(n) == [t |-> "number", v |-> n]
JStr(s) == [t |-> "string", v |-> s]
JArr(xs) == [t |-> "array", v |-> xs]
JObj(members) == [t |-> "object", v |-> members]
Member(k, x) == [k |-> k, x |-> x]

ContentNone == [kind |-> "None"]
ContentText == [kind |-> "text"]
ContentJson(doc) == [kind |-> "json", doc |-> doc]

RECURSIVE Decode(_)
RECURSIVE DecodeMembers(_, _)
\* the Python value of a JSON document (json.loads's decoder)
Decode(d) ==
    CASE d.t = "null" -> PyNone
      [] d.t = "boolean" -> PyBool(d.v)
      [] d.t = "number" -> PyInt(d.v)
      [] d.t = "string" -> PyStr(d.v)
      [] d.t = "array" -> PyList([n \in 1..Len(d.v) |-> Decode(d.v[n])])
      [] d.t = "object" -> DecodeMembers(d.v, PyDict(<<>>))

\* an object's members fill a dict in order; a repeated name keeps its first
\* position and takes the last value
DecodeMembers(members, acc) ==
    IF members = <<>>
    THEN acc
    ELSE DecodeMembers(Tail(members),
                       DictSet(acc, Head(members).k, Decode(Head(members).x)))

\* json.loads(content): raises on None (TypeError) and on non-JSON text
json_loads(content) ==
    CASE content.kind = "None" -> Raise("the JSON object must be str, bytes or bytearray, not NoneType")
      [] content.kind = "text" -> Raise("Expecting value: line 1 column 1 (char 0)")
      [] content.kind = "json" -> Ok(Decode(content.doc))

(***************************************************************************)
(* analyze_with_llm                                                        *)
(***************************************************************************)
CATS == <<"discrimination", "defamation", "advertisement">>

\* PRETTY: the display label of a category (the source's labels are Korean:
\* discriminatory term, defamation of a person, advertising)
PRETTY ==
    [discrimination |-> "label:discrimination",
     defamation |-> "label:defamation",
     advertisement |-> "label:advertisement"]

NoSetDefault == "object has no attribute 'setdefault'"
NoGet == "object has no attribute 'get'"
NotSliceable == "object is not subscriptable"

DefaultEntry == PyDict(<<Member("flag", PyBool(FALSE)), Member("evidence", PyList(<<>>))>>)

\* mutant of FillKey: data[k] = default, replacing an entry that is present
FillKeyOverwrites(data, k) ==
    IF data.t # "dict" THEN Raise(NoSetDefault) ELSE Ok(DictSet(data, k, DefaultEntry))

\* one pass of the loop `for k in (...)`: the three setdefault calls for k
FillKey(data, k) ==
    IF data.t # "dict"
    THEN Raise(NoSetDefault)
    ELSE LET d1 == SetDefault(data, k, DefaultEntry)
             e == DictGet(d1, k)
         IN IF e.t # "dict"
            THEN Raise(NoSetDefault)
            ELSE Ok(DictSet(d1, k,
                    SetDefault(SetDefault(e, "flag", PyBool(FALSE)),
                               "evidence", PyList(<<>>))))

RECURSIVE FillKeys(_, _)
\* the loop over the three fixed keys, stopping at the first exception
FillKeys(data, ks) ==
    IF ks = <<>>
    THEN Ok(data)
    ELSE LET r == FillKey(data, Head(ks))
         IN IF r.ok THEN FillKeys(r.val, Tail(ks)) ELSE r

\* data = json.loads(content), or {} when that raises
LoadsOrEmpty(content) ==
    LET r == json_loads(content)
    IN IF r.ok THEN r.val ELSE PyDict(<<>>)

\* mutant of CallModel: the strict call's exception is not caught
CallModelNoFallback(strict, fallback) == [calls |-> <<"strict">>, r |-> strict]

\* r = client.chat.completions.create(...): the strict-JSON call and, when it
\* raises, the call without response_format.  Each call's outcome is
\* Ok(content) or Raise(str(e)); the result names the calls made.
CallModel(strict, fallback) ==
    IF strict.ok
    THEN [calls |-> <<"strict">>, r |-> strict]
    ELSE [calls |-> <<"strict", "fallback">>, r |-> fallback]

\* analyze_with_llm: the calls made, and the value returned or exception raised
analyze_with_llm(strict, fallback) ==
    LET c == CallModel(strict, fallback)
    IN [calls |-> c.calls,
        out |-> IF ~c.r.ok
                THEN Raise(c.r.err)
                ELSE FillKeys(LoadsOrEmpty(c.r.val), CATS)]

(***************************************************************************)
(* run_review: the date check and the body of the article loop             *)
(***************************************************************************)
Digits == {"0", "1", "2", "3", "4", "5", "6", "7", "8", "9", "U+0663"}

\* mutant of FullMatchDate: re.match, which accepts any text after the date
MatchDatePrefix(date_str) ==
    /\ Len(date_str) >= 10
    /\ \A n \in 1..10 :
          IF n \in {5, 8} THEN date_str[n] = "-" ELSE date_str[n] \in Digits

\* re.fullmatch(r"\d{4}-\d{2}-\d{2}", date_str) on a string given as its
\* characters; \d of a str pattern also matches non-ASCII decimal digits
FullMatchDate(date_str) ==
    /\ Len(date_str) = 10
    /\ \A n \in 1..10 :
          IF n \in {5, 8} THEN date_str[n] = "-" ELSE date_str[n] \in Digits

BadDate == "date must be YYYY-MM-DD"

RECURSIVE Viols(_)
\* viols = [PRETTY[k] for k,v in res.items() if k in PRETTY and v.get("flag")]
Viols(items) ==
    IF items = <<>>
    THEN Ok(<<>>)
    ELSE LET it == Head(items)
             rest == Viols(Tail(items))
         IN IF it.k \notin DOMAIN PRETTY
            THEN rest
            ELSE IF it.x.t # "dict"
            THEN Raise(NoGet)
            ELSE IF ~rest.ok
            THEN rest
            ELSE IF Truthy(DictGet(it.x, "flag"))
            THEN Ok(<<PRETTY[it.k]>> \o rest.val)
            ELSE rest

\* mutant of EvidenceOf: the evidence is stored without the [:5] cut
EvidenceUncut(v) ==
    LET ev == DictGet(v, "evidence")
        e2 == IF Truthy(ev) THEN ev ELSE PyList(<<>>)
    IN IF e2.t \in {"list", "str"} THEN Ok(e2) ELSE Raise(NotSliceable)

\* (v.get("evidence") or [])[:5]
EvidenceOf(v) ==
    LET ev == DictGet(v, "evidence")
        e2 == IF Truthy(ev) THEN ev ELSE PyList(<<>>)
    IN IF e2.t \in {"list", "str"} THEN Ok(Slice(e2, 5)) ELSE Raise(NotSliceable)

RECURSIVE Evidence(_, _)
\* {k: (v.get("evidence") or [])[:5] for k,v in res.items() if v.get("flag")}
Evidence(items, acc) ==
    IF items = <<>>
    THEN Ok(acc)
    ELSE LET it == Head(items)
         IN IF it.x.t # "dict"
            THEN Raise(NoGet)
            ELSE IF ~Truthy(DictGet(it.x, "flag"))
            THEN Evidence(Tail(items), acc)
            ELSE LET e == EvidenceOf(it.x)
                 IN IF e.ok
                    THEN Evidence(Tail(items), DictSet(acc, it.k, e.val))
                    ELSE e

\* mutant of ReviewArticle: a result is appended without the `if viols` test
ReviewArticleAlways(a, res, results) ==
    LET viols == Viols(res.v)
        ev == Evidence(res.v, PyDict(<<>>))
    IN IF ~viols.ok
       THEN viols
       ELSE IF ~ev.ok
       THEN ev
       ELSE Ok(Append(results,
                 [url |-> a.url,
                  title |-> a.title,
                  published_date |-> a.published_date,
                  violations |-> viols.val,
                  evidence |-> ev.val]))

\* the results list after the loop body has handled article a with analyzer
\* output res, or the exception the body raises
ReviewArticle(a, res, results) ==
    LET viols == Viols(res.v)
    IN IF ~viols.ok
       THEN viols
       ELSE IF viols.val = <<>>
       THEN Ok(results)
       ELSE LET ev == Evidence(res.v, PyDict(<<>>))
            IN IF ~ev.ok
               THEN ev
               ELSE Ok(Append(results,
                         [url |-> a.url,
                          title |-> a.title,
                          published_date |-> a.published_date,
                          violations |-> viols.val,
                          evidence |-> ev.val]))

\* mutant of Progress: the share of articles still to do
ProgressRemaining(i, total) == ((total - i) * 100) \div total

\* mutant of Progress: the division by total is left out
ProgressUndivided(i, total) == i * 100

\* mutant of Progress: rounded to the nearest integer instead of floored
ProgressRounded(i, total) == (i * 100 + total \div 2) \div total

\* math.floor(i * 100 / total)
Progress(i, total) == (i * 100) \div total

\* mutant of Total: len(articles) without the floor of 1
TotalIsLen(articles) == Len(articles)

\* max(1, len(articles))
Total(articles) == IF Len(articles) < 1 THEN 1 ELSE Len(articles)

QueuedEntry == [status |-> "queued", progress |-> 0]
RunningEntry == [status |-> "running", progress |-> 0]
DoneEntry(results) ==
    [status |-> "done", progress |-> 100, count |-> Len(results), result |-> results]
FailedEntry(err) == [status |-> "failed", error |-> err]

(***************************************************************************)
(* Inputs: the date strings a client sends, the articles the store holds   *)
(* and the response bodies the language model returns.                     *)
(***************************************************************************)
DateIso == <<"2", "0", "2", "4", "-", "0", "1", "-", "1", "5">>
DateNonAscii == <<"2", "0", "2", "4", "-", "0", "U+0663", "-", "1", "5">>
DateShort == <<"2", "0", "2", "4", "-", "1", "-", "1", "5">>
DateNewline == <<"2", "0", "2", "4", "-", "0", "1", "-", "1", "5", "\n">>
DateSlashes == <<"2", "0", "2", "4", "/", "0", "1", "/", "1", "5">>
DateEmpty == <<>>

Dates == <<DateIso, DateNonAscii, DateShort, DateNewline, DateSlashes, DateEmpty>>
JobDates == <<DateIso, DateShort>>

\* the n-th article of a lookup's result
Article(n, date_str) ==
    [url |-> n, title |-> n, text |-> n, published_date |-> date_str]

QuoteChars == <<"a", "b", "c", "d", "e", "f", "g", "h">>
Quote(n) == JStr(<<"q", QuoteChars[n]>>)
Quotes(n) == JArr([m \in 1..n |-> Quote(m)])
Cat(flag, evidence) == JObj(<<Member("flag", flag), Member("evidence", evidence)>>)

\* {} 
BodyEmptyObject == ContentJson(JObj(<<>>))
\* []
BodyArray == ContentJson(JArr(<<>>))
\* null
BodyNull == ContentJson(JNull)
\* {"discrimination": null}
BodyNullEntry == ContentJson(JObj(<<Member("discrimination", JNull)>>))
\* all three categories, nothing flagged
BodyClean ==
    ContentJson(JObj(<<Member("discrimination", Cat(JBool(FALSE), JArr(<<>>))),
                       Member("defamation", Cat(JBool(FALSE), JArr(<<>>))),
                       Member("advertisement", Cat(JBool(FALSE), JArr(<<>>)))>>))
\* advertisement alone, flagged, with seven evidence strings
BodyAdvertisement ==
    ContentJson(JObj(<<Member("advertisement", Cat(JBool(TRUE), Quotes(7)))>>))
\* advertisement before discrimination; discrimination without evidence
BodyReordered ==
    ContentJson(JObj(<<Member("advertisement", Cat(JBool(TRUE), Quotes(1))),
                       Member("discrimination", JObj(<<Member("flag", JBool(TRUE))>>))>>))
\* a flagged key outside the three categories next to a flagged category
BodyExtraKey ==
    ContentJson(JObj(<<Member("defamation", Cat(JBool(TRUE), Quotes(1))),
                       Member("spam", Cat(JBool(TRUE), Quotes(6)))>>))
\* a key outside the three categories whose value is a string, with a flag
BodyNoteFlagged ==
    ContentJson(JObj(<<Member("note", JStr(<<"n">>)),
                       Member("advertisement", Cat(JBool(TRUE), JArr(<<>>)))>>))
\* the same key with nothing flagged
BodyNote == ContentJson(JObj(<<Member("note", JStr(<<"n">>))>>))
\* evidence given as one string of seven characters
BodyEvidenceString ==
    ContentJson(JObj(<<Member("defamation",
        Cat(JBool(TRUE), JStr(<<"a", "b", "c", "d", "e", "f", "g">>)))>>))
\* evidence given as a number, flag given as a number
BodyEvidenceNumber ==
    ContentJson(JObj(<<Member("defamation", Cat(JNum(1), JNum(7)))>>))
\* flag given as a non-empty string, evidence null
BodyFlagString ==
    ContentJson(JObj(<<Member("discrimination", Cat(JStr(<<"y">>), JNull))>>))
\* the same name twice: the last value (not flagged) is the one kept
BodyRepeatedName ==
    ContentJson(JObj(<<Member("advertisement", Cat(JBool(TRUE), Quotes(1))),
                       Member("advertisement", JObj(<<Member("evidence", Quotes(2))>>))>>))

Bodies ==
    <<ContentNone, ContentText, BodyEmptyObject, BodyArray, BodyNull, BodyNullEntry,
      BodyClean, BodyAdvertisement, BodyReordered, BodyExtraKey, BodyNoteFlagged,
      BodyNote, BodyEvidenceString, BodyEvidenceNumber, BodyFlagString,
      BodyRepeatedName>>
JobBodies == <<BodyAdvertisement>>

StrictError == "strict call failed"
FallbackError == "fallback call failed"
StoreError == "store lookup failed"

(***************************************************************************)
(* State                                                                   *)
(***************************************************************************)
VARIABLES
    JOBS,      \* the registry: job_id -> entry
    task,      \* job_id -> the background task run_review(job_id, date_str)
    fetched,   \* job_id -> the outcomes of the store lookups the task made
    last,      \* job_id -> the task's latest analyzer run: calls, body, outcome
    triggered, \* job_id -> per analyzed article, the categories the analyzer flagged
    response   \* the HTTP response of the request handled in this step

vars == <<JOBS, task, fetched, last, triggered, response>>

NoResponse == [status_code |-> "none"]

Init ==
    /\ JOBS = <<>>
    /\ task = <<>>
    /\ fetched = <<>>
    /\ last = <<>>
    /\ triggered = <<>>
    /\ response = NoResponse

\* no analyzer run yet
NoRun == [article |-> 0]

\* the categories whose flag is true in an analyzer output
Flagged(res) ==
    {k \in {"discrimination", "defamation", "advertisement"} :
        Truthy(DictGet(DictGet(res, k), "flag"))}

\* m[k] = x on a mapping
Assign(m, k, x) == [y \in DOMAIN m \cup {k} |-> IF y = k THEN x ELSE m[y]]

\* uuid.uuid4().hex[:12]: an identifier no job has had
NewJobId == Cardinality(DOMAIN JOBS) + 1

(***************************************************************************)
(* HTTP handlers                                                           *)
(***************************************************************************)
\* mutant of start_review: the date is checked before the job is created, a
\* malformed one being answered 422
start_reviewChecksDate(date_str, limit) ==
    /\ Cardinality(DOMAIN JOBS) < limit
    /\ IF FullMatchDate(date_str)
       THEN LET job_id == NewJobId
            IN /\ JOBS' = Assign(JOBS, job_id, QueuedEntry)
               /\ task' = Assign(task, job_id,
                             [pc |-> "scheduled", date_str |-> date_str,
                              articles |-> <<>>, total |-> 0, i |-> 0,
                              results |-> <<>>])
               /\ fetched' = Assign(fetched, job_id, <<>>)
               /\ last' = Assign(last, job_id, NoRun)
               /\ triggered' = Assign(triggered, job_id, <<>>)
               /\ response' = [status_code |-> "202", location |-> job_id,
                               body |-> [job_id |-> job_id, status |-> "queued"]]
       ELSE /\ response' = [status_code |-> "422"]
            /\ UNCHANGED <<JOBS, task, fetched, last, triggered>>

\* POST /review, with at most `limit` jobs started
start_review(date_str, limit) ==
    /\ Cardinality(DOMAIN JOBS) < limit
    /\ LET job_id == NewJobId
       IN /\ JOBS' = Assign(JOBS, job_id, QueuedEntry)
          /\ task' = Assign(task, job_id,
                        [pc |-> "scheduled", date_str |-> date_str,
                         articles |-> <<>>, total |-> 0, i |-> 0,
                         results |-> <<>>])
          /\ fetched' = Assign(fetched, job_id, <<>>)
          /\ last' = Assign(last, job_id, NoRun)
          /\ triggered' = Assign(triggered, job_id, <<>>)
          /\ response' = [status_code |-> "202", location |-> job_id,
                          body |-> [job_id |-> job_id, status |-> "queued"]]

\* JOBS.get(job_id, {"status": "not_found"})
Lookup(job_id) ==
    IF job_id \in DOMAIN JOBS THEN JOBS[job_id] ELSE [status |-> "not_found"]

\* mutant of get_review: the default is stored in the registry
\* (JOBS.setdefault instead of JOBS.get)
get_reviewSetDefault(job_id) ==
    /\ response' = [status_code |-> "200", job_id |-> job_id,
                    body |-> Lookup(job_id)]
    /\ JOBS' = Assign(JOBS, job_id, Lookup(job_id))
    /\ UNCHANGED <<task, fetched, last, triggered>>

\* GET /review/{job_id}
get_review(job_id) ==
    /\ response' = [status_code |-> "200", job_id |-> job_id, body |-> Lookup(job_id)]
    /\ UNCHANGED <<JOBS, task, fetched, last, triggered>>

(***************************************************************************)
(* run_review(job_id, date_str), step by step                              *)
(***************************************************************************)
\* mutant of Fail: the failure is stored in every job's entry
FailEveryJob(j, err) ==
    /\ JOBS' = [k \in DOMAIN JOBS |-> FailedEntry(err)]
    /\ task' = [task EXCEPT ![j].pc = "returned"]

\* mutant of Fail: the entry is updated in place, keeping its progress
FailKeepsProgress(j, err) ==
    /\ JOBS' = Assign(JOBS, j, [status |-> "failed", error |-> err,
                                progress |-> JOBS[j].progress])
    /\ task' = [task EXCEPT ![j].pc = "returned"]

\* except Exception as e: JOBS[job_id] = {"status": "failed", "error": str(e)}
Fail(j, err) ==
    /\ JOBS' = Assign(JOBS, j, FailedEntry(err))
    /\ task' = [task EXCEPT ![j].pc = "returned"]

\* mutant of Enter: the task starts without storing the running entry
EnterSkipsRunning(j) ==
    /\ task[j].pc = "scheduled"
    /\ task' = [task EXCEPT ![j].pc = "try"]
    /\ response' = NoResponse
    /\ UNCHANGED <<JOBS, fetched, last, triggered>>

\* JOBS[job_id] = {"status": "running", "progress": 0}
Enter(j) ==
    /\ task[j].pc = "scheduled"
    /\ JOBS' = Assign(JOBS, j, RunningEntry)
    /\ task' = [task EXCEPT ![j].pc = "try"]
    /\ response' = NoResponse
    /\ UNCHANGED <<fetched, last, triggered>>

\* the date check
Validate(j) ==
    /\ task[j].pc = "try"
    /\ IF FullMatchDate(task[j].date_str)
       THEN /\ task' = [task EXCEPT ![j].pc = "fetch"]
            /\ UNCHANGED JOBS
       ELSE Fail(j, BadDate)
    /\ response' = NoResponse
    /\ UNCHANGED <<fetched, last, triggered>>

\* articles = fetch_articles_by_date(date_str); total; results = []
Fetch(j, limit) ==
    /\ task[j].pc = "fetch"
    /\ \/ /\ fetched' = [fetched EXCEPT ![j] = Append(@, "raised")]
          /\ Fail(j, StoreError)
       \/ \E n \in 0..limit :
             LET articles == [m \in 1..n |-> Article(m, task[j].date_str)]
             IN /\ fetched' = [fetched EXCEPT ![j] = Append(@, "returned")]
                /\ task' = [task EXCEPT ![j].pc = "loop",
                                        ![j].articles = articles,
                                        ![j].total = Total(articles),
                                        ![j].results = <<>>]
                /\ UNCHANGED JOBS
    /\ response' = NoResponse
    /\ UNCHANGED <<last, triggered>>

\* The outcomes of the two model calls of one analyzer run, numbered: 0, both
\* raise; 1..L, the strict call returns body c; L+1..2L, the strict call raises
\* and the fallback call returns body c - L.
StrictOutcome(c, bodies) ==
    IF c \in 1..Len(bodies) THEN Ok(bodies[c]) ELSE Raise(StrictError)
FallbackOutcome(c, bodies) ==
    IF c > Len(bodies) THEN Ok(bodies[c - Len(bodies)]) ELSE Raise(FallbackError)

\* one pass of the article loop, the model answering with one of `bodies`
Iterate(j, bodies) ==
    /\ task[j].pc = "loop"
    /\ task[j].i < Len(task[j].articles)
    /\ \E c \in 0..(2 * Len(bodies)) :
          LET strict == StrictOutcome(c, bodies)
              fallback == FallbackOutcome(c, bodies)
              i == task[j].i + 1
              run == analyze_with_llm(strict, fallback)
              res == run.out
              out == IF res.ok
                     THEN ReviewArticle(task[j].articles[i], res.val, task[j].results)
                     ELSE res
          IN /\ last' = [last EXCEPT ![j] =
                            [article |-> i, strict |-> strict, fallback |-> fallback,
                             calls |-> run.calls, out |-> res]]
             /\ triggered' = [triggered EXCEPT ![j] =
                                 IF res.ok THEN Append(@, Flagged(res.val)) ELSE @]
             /\ IF out.ok
                THEN /\ task' = [task EXCEPT ![j].i = i, ![j].results = out.val]
                     /\ JOBS' = [JOBS EXCEPT ![j].progress = Progress(i, task[j].total)]
                ELSE Fail(j, out.err)
    /\ response' = NoResponse
    /\ UNCHANGED fetched

\* mutant of Finish: the loop ends when i reaches total instead of len(articles)
FinishWhenTotal(j) ==
    /\ task[j].pc = "loop"
    /\ task[j].i = task[j].total
    /\ JOBS' = Assign(JOBS, j, DoneEntry(task[j].results))
    /\ task' = [task EXCEPT ![j].pc = "returned"]
    /\ response' = NoResponse
    /\ UNCHANGED <<fetched, last, triggered>>

\* mutant of Finish: storing the done entry evicts the other finished jobs
FinishEvicts(j) ==
    /\ task[j].pc = "loop"
    /\ task[j].i = Len(task[j].articles)
    /\ JOBS' = [k \in {j} \cup {x \in DOMAIN JOBS : JOBS[x].status \in {"queued", "running"}} |->
                   IF k = j THEN DoneEntry(task[j].results) ELSE JOBS[k]]
    /\ task' = [task EXCEPT ![j].pc = "returned"]
    /\ response' = NoResponse
    /\ UNCHANGED <<fetched, last, triggered>>

\* the loop is over: JOBS[job_id] = {"status": "done", ...}
Finish(j) ==
    /\ task[j].pc = "loop"
    /\ task[j].i = Len(task[j].articles)
    /\ JOBS' = Assign(JOBS, j, DoneEntry(task[j].results))
    /\ task' = [task EXCEPT ![j].pc = "returned"]
    /\ response' = NoResponse
    /\ UNCHANGED <<fetched, last, triggered>>

(***************************************************************************)
(* Specifications                                                          *)
(***************************************************************************)
\* one job, every date and every response body
Next ==
    \/ \E d \in 1..Len(Dates) : start_review(Dates[d], 1)
    \/ get_review(1)
    \/ \E j \in DOMAIN JOBS : Enter(j)
    \/ \E j \in DOMAIN JOBS : Validate(j)
    \/ \E j \in DOMAIN JOBS : Fetch(j, MaxArticles)
    \/ \E j \in DOMAIN JOBS : Iterate(j, Bodies)
    \/ \E j \in DOMAIN JOBS : Finish(j)

Spec == Init /\ [][Next]_vars

\* several jobs running concurrently
NextJobs ==
    \/ \E d \in 1..Len(JobDates) : start_review(JobDates[d], MaxJobs)
    \/ get_review(MaxJobs)
    \/ \E j \in DOMAIN JOBS : Enter(j)
    \/ \E j \in DOMAIN JOBS : Validate(j)
    \/ \E j \in DOMAIN JOBS : Fetch(j, MaxJobArticles)
    \/ \E j \in DOMAIN JOBS : Iterate(j, JobBodies)
    \/ \E j \in DOMAIN JOBS : Finish(j)

SpecJobs == Init /\ [][NextJobs]_vars

\* a background task that can take a step eventually takes it
Run(j) == Enter(j) \/ Validate(j) \/ Fetch(j, MaxJobArticles) \/ Iterate(j, JobBodies) \/ Finish(j)
FairSpec == SpecJobs /\ \A j \in 1..MaxJobs : WF_vars(j \in DOMAIN JOBS /\ Run(j))

(***************************************************************************)
(* Properties                                                              *)
(***************************************************************************)
Terminal == {"done", "failed"}

\* the date pattern: four digits, hyphen, two digits, hyphen, two digits
DatePattern(s) ==
    /\ Len(s) = 10
    /\ s[5] = "-"
    /\ s[8] = "-"
    /\ \A n \in {1, 2, 3, 4, 6, 7, 9, 10} : s[n] \in Digits

HasProgress(e) == "progress" \in DOMAIN e

\* one step of the lifecycle queued -> running -> done | failed
StatusStep(s, t) ==
    \/ t = s
    \/ s = "queued" /\ t = "running"
    \/ s = "running" /\ t \in Terminal

\* C1: every entry is created queued, its status moves only along
\* queued -> running -> (done | failed), and a done or failed entry is never
\* changed again by any step of any task.
C1_StatusOrder ==
    [][/\ \A j \in DOMAIN JOBS :
             /\ j \in DOMAIN JOBS'
             /\ StatusStep(JOBS[j].status, JOBS'[j].status)
             /\ JOBS[j].status \in Terminal => JOBS'[j] = JOBS[j]
       /\ \A j \in DOMAIN JOBS' \ DOMAIN JOBS : JOBS'[j].status = "queued"]_vars

\* C1 witness: one job has ended done and another failed
C1_Witness ==
    \E j, k \in DOMAIN JOBS : JOBS[j].status = "done" /\ JOBS[k].status = "failed"

\* C2: a started review whose date matches the pattern eventually reaches done
\* or failed, given that every step of its task (store and model calls
\* included) eventually returns or raises.
C2_Terminates ==
    \A j \in 1..MaxJobs :
        (j \in DOMAIN JOBS /\ DatePattern(task[j].date_str))
            ~> (j \in DOMAIN JOBS /\ JOBS[j].status \in Terminal)

\* C2 witness: a job with a matching date has ended, its task having returned
C2_Witness ==
    \E j \in DOMAIN JOBS :
        /\ DatePattern(task[j].date_str)
        /\ task[j].pc = "returned"
        /\ JOBS[j].status \in Terminal

\* C3: a job whose date does not match the pattern never looks up the store
\* and never runs the analyzer, and its task returns with the entry
\* {status: failed, error: message}, without result or count.
C3_BadDateFails ==
    \A j \in DOMAIN JOBS :
        ~DatePattern(task[j].date_str) =>
            /\ fetched[j] = <<>>
            /\ last[j] = NoRun
            /\ task[j].pc \in {"scheduled", "try", "returned"}
            /\ task[j].pc = "returned" =>
                  /\ JOBS[j].status = "failed"
                  /\ DOMAIN JOBS[j] = {"status", "error"}
                  /\ JOBS[j].error = BadDate

\* C3 witness: the task of a job with a malformed date has returned
C3_Witness ==
    \E j \in DOMAIN JOBS : ~DatePattern(task[j].date_str) /\ task[j].pc = "returned"

\* progress never decreases from one state of an entry to the next
ProgressMonotone ==
    \A j \in DOMAIN JOBS :
        (HasProgress(JOBS[j]) /\ HasProgress(JOBS'[j])) =>
            JOBS'[j].progress >= JOBS[j].progress

\* progress = 100 only with status = done
FullOnlyWhenDone ==
    \A j \in DOMAIN JOBS :
        (HasProgress(JOBS[j]) /\ JOBS[j].progress = 100) => JOBS[j].status = "done"

\* progress = 100 only with status = done, or with status = running once the
\* loop has analyzed the last of at least one article
FullOnlyAfterLastArticle ==
    \A j \in DOMAIN JOBS :
        (HasProgress(JOBS[j]) /\ JOBS[j].progress = 100) =>
            \/ JOBS[j].status = "done"
            \/ /\ JOBS[j].status = "running"
               /\ task[j].pc = "loop"
               /\ Len(task[j].articles) >= 1
               /\ task[j].i = Len(task[j].articles)

\* C4 as stated: progress never decreases within a job, and progress = 100 is
\* stored only together with status = done.
C4_Original == [][ProgressMonotone /\ FullOnlyWhenDone']_vars

\* C4 amended: progress never decreases within a job, and progress = 100 is
\* stored only with status = done or, while still running, after the last
\* article has been analyzed; never with status = queued.
C4_ProgressAmended == [][ProgressMonotone /\ FullOnlyAfterLastArticle']_vars

\* C4 witness: a running job of three articles shows progress 100
C4_Witness ==
    \E j \in DOMAIN JOBS :
        /\ JOBS[j].status = "running"
        /\ JOBS[j].progress = 100
        /\ task[j].i = 3

\* an analyzer run in which a model call returned a response body
Returned(run) == run # NoRun /\ (run.strict.ok \/ run.fallback.ok)

\* the body that run's analyzer received
Body(run) == IF run.strict.ok THEN run.strict.val ELSE run.fallback.val

Categories == {"discrimination", "defamation", "advertisement"}

\* the body parses to a JSON object whose category entries, where present,
\* are objects
ObjectOfObjects(body) ==
    /\ json_loads(body).ok
    /\ LET data == json_loads(body).val
       IN /\ data.t = "dict"
          /\ \A k \in Categories : DictHas(data, k) => DictGet(data, k).t = "dict"

\* field f of category k in the analyzer output res is the one of the parsed
\* response data when that has one, and the default otherwise
FieldKept(data, res, k, f, default) ==
    /\ DictHas(DictGet(res, k), f)
    /\ DictGet(DictGet(res, k), f) =
          IF DictHas(data, k) /\ DictHas(DictGet(data, k), f)
          THEN DictGet(DictGet(data, k), f)
          ELSE default

\* the analyzer's outcome on body: all three keys, each with flag and evidence,
\* the fields the response had kept and the others at their defaults
DefaultsFilled(body, out) ==
    /\ out.ok
    /\ LET data == json_loads(body).val
           res == out.val
       IN /\ res.t = "dict"
          /\ \A k \in Categories :
                /\ DictHas(res, k)
                /\ DictGet(res, k).t = "dict"
                /\ FieldKept(data, res, k, "flag", PyBool(FALSE))
                /\ FieldKept(data, res, k, "evidence", PyList(<<>>))
          /\ \A n \in 1..Len(data.v) :
                data.v[n].k \notin Categories =>
                    DictGet(res, data.v[n].k) = data.v[n].x

\* the body parses to a JSON object
ObjectBody(body) == json_loads(body).ok /\ json_loads(body).val.t = "dict"

\* C5: for every response that parses to a JSON object, whichever of the three
\* keys it lacks and whatever a present key lacks, the analyzer returns a
\* mapping with all three keys, each with flag and evidence: a missing flag is
\* false, a missing evidence is the empty list, and what was present is
\* returned unchanged.
C5_DefaultsFilled ==
    \A j \in DOMAIN JOBS :
        (Returned(last[j]) /\ ObjectBody(Body(last[j]))) =>
            DefaultsFilled(Body(last[j]), last[j].out)

\* the same for the responses whose category entries, where present, are
\* objects: on these the analyzer does fill the defaults
DefaultsFilledForObjectEntries ==
    \A j \in DOMAIN JOBS :
        (Returned(last[j]) /\ ObjectOfObjects(Body(last[j]))) =>
            /\ last[j].out.ok
            /\ LET data == json_loads(Body(last[j])).val
                   res == last[j].out.val
               IN /\ res.t = "dict"
                  /\ \A k \in Categories :
                        /\ DictHas(res, k)
                        /\ DictGet(res, k).t = "dict"
                        /\ FieldKept(data, res, k, "flag", PyBool(FALSE))
                        /\ FieldKept(data, res, k, "evidence", PyList(<<>>))
                  /\ \A n \in 1..Len(data.v) :
                        data.v[n].k \notin Categories =>
                            DictGet(res, data.v[n].k) = data.v[n].x

\* the analyzer has run on an object that lacks defamation and whose
\* discrimination entry has a flag and no evidence
DefaultsFilledCase ==
    \E j \in DOMAIN JOBS :
        /\ Returned(last[j])
        /\ ObjectOfObjects(Body(last[j]))
        /\ LET data == json_loads(Body(last[j])).val
           IN /\ ~DictHas(data, "defamation")
              /\ DictHas(data, "discrimination")
              /\ DictHas(DictGet(data, "discrimination"), "flag")
              /\ ~DictHas(DictGet(data, "discrimination"), "evidence")

\* res has the three categories, each an object with flag and evidence
FixedShape(res) ==
    /\ res.t = "dict"
    /\ \A k \in Categories :
          /\ DictHas(res, k)
          /\ DictGet(res, k).t = "dict"
          /\ DictHas(DictGet(res, k), "flag")
          /\ DictHas(DictGet(res, k), "evidence")

\* C6: once a model call has returned, whatever the body, the analyzer
\* returns the fixed three-category shape without raising and the job is not
\* failed because of the response.
C6_AnyBodyAccepted ==
    \A j \in DOMAIN JOBS :
        Returned(last[j]) =>
            /\ last[j].out.ok
            /\ FixedShape(last[j].out.val)
            /\ JOBS[j].status # "failed"

\* C7: every evidence list stored in a done job's result has at most 5 entries.
C7_EvidenceAtMostFive ==
    \A j \in DOMAIN JOBS :
        JOBS[j].status = "done" =>
            \A m \in 1..Len(JOBS[j].result) :
                LET ev == JOBS[j].result[m].evidence
                IN \A n \in 1..Len(ev.v) : Len(ev.v[n].x.v) <= 5

\* C7 witness: a done job stores 5 evidence entries for a category for which
\* the analyzer returned 7
C7_Witness ==
    \E j \in DOMAIN JOBS :
        /\ JOBS[j].status = "done"
        /\ last[j] # NoRun
        /\ last[j].out.ok
        /\ Len(DictGet(DictGet(last[j].out.val, "advertisement"), "evidence").v) = 7
        /\ \E m \in 1..Len(JOBS[j].result) :
              LET ev == JOBS[j].result[m].evidence
              IN DictHas(ev, "advertisement") /\ Len(DictGet(ev, "advertisement").v) = 5

\* the analyzed articles a flag was raised for, and the m-th of them
FlaggedArticles(j) == {n \in 1..Len(triggered[j]) : triggered[j][n] # {}}
NthFlagged(j, m) ==
    CHOOSE n \in FlaggedArticles(j) :
        Cardinality({x \in FlaggedArticles(j) : x <= n}) = m

\* C8: a done entry has progress 100, count = len(result), and result holds,
\* in fetch order, one ReviewResult for exactly the fetched articles with at
\* least one true category flag, each with exactly the labels of the
\* categories flagged for it.
C8_DoneResult ==
    \A j \in DOMAIN JOBS :
        JOBS[j].status = "done" =>
            LET e == JOBS[j]
                arts == task[j].articles
            IN /\ e.progress = 100
               /\ e.count = Len(e.result)
               /\ Len(triggered[j]) = Len(arts)
               /\ Len(e.result) = Cardinality(FlaggedArticles(j))
               /\ \A m \in 1..Len(e.result) :
                     LET n == NthFlagged(j, m)
                         r == e.result[m]
                     IN /\ r.url = arts[n].url
                        /\ r.title = arts[n].title
                        /\ r.published_date = arts[n].published_date
                        /\ {r.violations[x] : x \in 1..Len(r.violations)}
                              = {PRETTY[k] : k \in triggered[j][n]}
                        /\ Len(r.violations) = Cardinality(triggered[j][n])

\* C8 witness: a done job over three articles of which the second and the
\* third were flagged, the third for two categories
C8_Witness ==
    \E j \in DOMAIN JOBS :
        /\ JOBS[j].status = "done"
        /\ Len(task[j].articles) = 3
        /\ triggered[j][1] = {}
        /\ triggered[j][2] # {}
        /\ Cardinality(triggered[j][3]) = 2
        /\ JOBS[j].count = 2

\* the store lookup of job j returned no article
FetchedNothing(j) == fetched[j] = <<"returned">> /\ Len(task[j].articles) = 0

\* C9: when the lookup returns no article the analyzer is never run, the
\* divisor total is at least 1, the job does not fail, and the task returns
\* with {status: done, progress: 100, count: 0, result: []}.
C9_NoArticles ==
    \A j \in DOMAIN JOBS :
        FetchedNothing(j) =>
            /\ last[j] = NoRun
            /\ triggered[j] = <<>>
            /\ task[j].total >= 1
            /\ task[j].pc \in {"loop", "returned"}
            /\ task[j].pc = "loop" => JOBS[j] = RunningEntry
            /\ task[j].pc = "returned" =>
                  JOBS[j] = [status |-> "done", progress |-> 100,
                             count |-> 0, result |-> <<>>]

\* C9 witness: a task whose lookup returned no article has returned
C9_Witness ==
    \E j \in DOMAIN JOBS : FetchedNothing(j) /\ task[j].pc = "returned"

\* C10: an analyzer run makes the strict call first and the fallback call
\* exactly when the strict call raised (at most two calls); with the fallback
\* returning, the run's outcome is the one of a strict call returning the same
\* body; and an entry is failed with a model call's error only when both
\* calls of the run raised, the error being the fallback call's.
C10_Fallback ==
    \A j \in DOMAIN JOBS :
        last[j] # NoRun =>
            LET run == last[j]
            IN /\ run.calls = IF run.strict.ok THEN <<"strict">>
                                               ELSE <<"strict", "fallback">>
               /\ (~run.strict.ok /\ run.fallback.ok) =>
                     run.out = analyze_with_llm(run.fallback, run.fallback).out
               /\ (JOBS[j].status = "failed"
                   /\ JOBS[j].error \in {StrictError, FallbackError}) =>
                     /\ ~run.strict.ok
                     /\ ~run.fallback.ok
                     /\ JOBS[j].error = FallbackError

\* C10 witness: a job is done whose last analyzer run needed the fallback call
C10_Witness ==
    \E j \in DOMAIN JOBS :
        /\ JOBS[j].status = "done"
        /\ last[j] # NoRun
        /\ ~last[j].strict.ok
        /\ last[j].fallback.ok
        /\ last[j].calls = <<"strict", "fallback">>

\* the jobs a step creates
Created == DOMAIN JOBS' \ DOMAIN JOBS

\* C11: every POST /review is answered 202 with the id of one new entry
\* {status: queued, progress: 0} and status queued, whatever the date string;
\* the new job has one background run scheduled, which never starts twice; and
\* an entry is failed only once its background run has returned.
C11_AlwaysAccepted ==
    [][/\ response'.status_code \in {"none", "200", "202"}
       /\ response'.status_code = "202" =>
             /\ Created = {response'.body.job_id}
             /\ response'.location = response'.body.job_id
             /\ response'.body.status = "queued"
       /\ \A j \in Created :
             /\ response'.status_code = "202"
             /\ JOBS'[j] = [status |-> "queued", progress |-> 0]
             /\ task'[j].pc = "scheduled"
       /\ \A j \in DOMAIN JOBS :
             task[j].pc # "scheduled" => task'[j].pc # "scheduled"
       /\ \A j \in DOMAIN JOBS' :
             JOBS'[j].status = "failed" => task'[j].pc = "returned"]_vars

\* C11 witness: a POST with a malformed date has just been answered 202
C11_Witness ==
    /\ response.status_code = "202"
    /\ ~DatePattern(task[response.body.job_id].date_str)
    /\ JOBS[response.body.job_id].status = "queued"

\* C12: a GET answers 200 with {status: not_found} for an id the registry does
\* not hold and with the current entry for an id it holds, and in both cases
\* leaves the registry (and every job's run) as it was.
C12_GetReadsOnly ==
    [][response'.status_code = "200" =>
          /\ JOBS' = JOBS
          /\ task' = task
          /\ IF response'.job_id \in DOMAIN JOBS
             THEN response'.body = JOBS[response'.job_id]
             ELSE response'.body = [status |-> "not_found"]]_vars

\* C12 witness: an unknown id was polled while another job was running
C12_Witness ==
    /\ response.status_code = "200"
    /\ response.job_id \notin DOMAIN JOBS
    /\ response.body.status = "not_found"
    /\ \E j \in DOMAIN JOBS : JOBS[j].status = "running"

\* the status the registry must show for a run at position pc
StatusAt(pc) ==
    CASE pc = "scheduled" -> {"queued"}
      [] pc \in {"try", "fetch", "loop"} -> {"running"}
      [] pc = "returned" -> {"done", "failed"}

\* each entry shows the position of its own run, and a failed entry carries
\* the error of its own date, its own store lookup or its own last article
OwnOutcome ==
    \A j \in DOMAIN JOBS :
       /\ JOBS[j].status \in StatusAt(task[j].pc)
       /\ JOBS[j].status = "failed" =>
             \/ JOBS[j].error = BadDate /\ ~DatePattern(task[j].date_str)
             \/ JOBS[j].error = StoreError /\ fetched[j] = <<"raised">>
             \/ /\ last[j] # NoRun
                /\ last[j].article = task[j].i + 1
                /\ IF last[j].out.ok
                   THEN JOBS[j].error \in {NoGet, NotSliceable}
                   ELSE JOBS[j].error = last[j].out.err

\* C13: under every interleaving of jobs and polls, a step that changes a job's
\* entry is a step of that job's own run and changes no other job's entry or
\* run; each entry always shows the position and the outcome of its own run,
\* whatever the other jobs did, a failure of another job included.
C13_Isolation ==
    [][/\ \A j \in DOMAIN JOBS :
             JOBS'[j] # JOBS[j] =>
                /\ task'[j] # task[j]
                /\ \A k \in DOMAIN JOBS \ {j} :
                      JOBS'[k] = JOBS[k] /\ task'[k] = task[k]
       /\ OwnOutcome']_vars

\* C13 witness: one job failed on its date and another went on to complete
\* with its article reviewed
C13_Witness ==
    \E j, k \in DOMAIN JOBS :
       /\ j # k
       /\ JOBS[j] = FailedEntry(BadDate)
       /\ JOBS[k].status = "done"
       /\ JOBS[k].count = 1

\* the place of a label in the order discrimination, defamation, advertisement
Place(label) == CHOOSE n \in 1..Len(CATS) : PRETTY[CATS[n]] = label

\* C14: in every ReviewResult of a done job the violations list holds the
\* labels of the triggered categories in the order discrimination, defamation,
\* advertisement, whatever the order of the keys in the model's response.
C14_FixedOrder ==
    \A j \in DOMAIN JOBS :
        JOBS[j].status = "done" =>
            \A m \in 1..Len(JOBS[j].result) :
                LET viols == JOBS[j].result[m].violations
                IN \A x, y \in 1..Len(viols) :
                      x < y => Place(viols[x]) < Place(viols[y])

\* the keys of a Python dict
Keys(d) == {d.v[n].k : n \in 1..Len(d.v)}

\* C15: every mapping the analyzer returns has exactly the keys
\* discrimination, defamation, advertisement, and in every ReviewResult of a
\* done job the keys of the evidence mapping are exactly the categories whose
\* labels are in its violations list; no other key appears in either.
C15_ThreeKeysOnly ==
    \A j \in DOMAIN JOBS :
        /\ (last[j] # NoRun /\ last[j].out.ok) =>
              /\ last[j].out.val.t = "dict"
              /\ Keys(last[j].out.val) = Categories
        /\ JOBS[j].status = "done" =>
              \A m \in 1..Len(JOBS[j].result) :
                  LET r == JOBS[j].result[m]
                  IN Keys(r.evidence) =
                        {k \in Categories :
                            \E x \in 1..Len(r.violations) :
                                r.violations[x] = PRETTY[k]}

\* the stored evidence mappings alone (second half of C15)
EvidenceKeysAreCategories ==
    \A j \in DOMAIN JOBS :
        JOBS[j].status = "done" =>
            \A m \in 1..Len(JOBS[j].result) :
                Keys(JOBS[j].result[m].evidence) \subseteq Categories

\* the fields of a registry entry
Fields(e) == DOMAIN e

\* job j failed because its store lookup raised / because the analyzer raised
StoreRaised(j) == fetched[j] = <<"raised">>
AnalyzerRaised(j) == last[j] # NoRun /\ ~last[j].out.ok

\* C16: when the store lookup raises, or the analyzer raises at the k-th
\* article, the entry becomes exactly {status: failed, error: str(e)}, with no
\* progress and none of the results accumulated so far; the run has returned
\* (the exception is not propagated), k-1 articles were handled before and no
\* article is analyzed afterwards.
C16_FailureReplacesEntry ==
    [][\A j \in DOMAIN JOBS' :
          /\ (StoreRaised(j) \/ AnalyzerRaised(j))' =>
                /\ JOBS'[j].status = "failed"
                /\ Fields(JOBS'[j]) = {"status", "error"}
                /\ task'[j].pc = "returned"
          /\ StoreRaised(j)' =>
                /\ JOBS'[j].error = StoreError
                /\ last'[j] = NoRun
          /\ AnalyzerRaised(j)' =>
                /\ JOBS'[j].error = last'[j].out.err
                /\ last'[j].article = task'[j].i + 1
                /\ Len(triggered'[j]) = task'[j].i
          /\ (j \in DOMAIN JOBS /\ JOBS[j].status = "failed") =>
                /\ JOBS'[j] = JOBS[j]
                /\ last'[j] = last[j]
                /\ triggered'[j] = triggered[j]
                /\ fetched'[j] = fetched[j]]_vars

\* C16 witness: the analyzer raised at the second of three articles, after the
\* first one had been flagged and stored in the results and progress was 33
C16_Witness ==
    \E j \in DOMAIN JOBS :
        /\ AnalyzerRaised(j)
        /\ last[j].article = 2
        /\ Len(task[j].articles) = 3
        /\ Len(task[j].results) = 1
        /\ JOBS[j] = [status |-> "failed", error |-> last[j].out.err]

\* count and result exactly in a done entry, error exactly in a failed one,
\* progress an integer of 0..100 wherever it is present
WellFormedEntry(e) ==
    /\ e.status \in {"queued", "running", "done", "failed"}
    /\ ("count" \in Fields(e)) <=> (e.status = "done")
    /\ ("result" \in Fields(e)) <=> (e.status = "done")
    /\ ("error" \in Fields(e)) <=> (e.status = "failed")
    /\ "progress" \in Fields(e) => e.progress \in 0..100

\* C17: in every reachable state every registry entry has count and result
\* exactly when its status is done, error exactly when it is failed, and a
\* progress, when present, that is an integer of 0..100; and so has every
\* entry a poll returns.
C17_WellFormedEntries ==
    /\ \A j \in DOMAIN JOBS : WellFormedEntry(JOBS[j])
    /\ (response.status_code = "200" /\ response.body.status # "not_found") =>
           WellFormedEntry(response.body)

\* C17 witness: a poll returned a done entry with two results while the
\* registry holds it
C17_Witness ==
    /\ response.status_code = "200"
    /\ response.body.status = "done"
    /\ response.body.count = 2
    /\ Len(response.body.result) = 2
    /\ JOBS[response.job_id] = response.body

\* the job ids POST /review has returned: each has a scheduled run
Issued == DOMAIN task

\* C18: no step removes an entry from the registry, so its set of job ids
\* only grows, and every GET for a job id that a POST returned answers with
\* status queued, running, done or failed, never not_found.
C18_NeverRemoved ==
    [][/\ DOMAIN JOBS \subseteq DOMAIN JOBS'
       /\ Issued \subseteq DOMAIN JOBS'
       /\ (response'.status_code = "200" /\ response'.job_id \in Issued) =>
             response'.body.status \in {"queued", "running", "done", "failed"}]_vars

\* C18 witness: the last job was polled after every job was started and
\* finished, and the poll returned its failed entry
C18_Witness ==
    /\ Cardinality(DOMAIN JOBS) = MaxJobs
    /\ \A j \in DOMAIN JOBS : task[j].pc = "returned"
    /\ response.status_code = "200"
    /\ response.job_id \in Issued
    /\ response.body.status = "failed"

\* the largest integer p with p * n <= i * 100
FloorPercent(i, n) == CHOOSE p \in 0..100 : p * n <= i * 100 /\ i * 100 < (p + 1) * n

\* C19: while a job over N >= 1 articles is in its loop, the stored progress
\* is floor(i * 100 / N) for the number i of articles handled so far, flagged
\* or not, hence 0 until the first one is handled; and progress is written
\* only by the step that handles one article (or that ends the run).
C19_ProgressPerArticle ==
    [][\A j \in DOMAIN JOBS' :
          /\ (task'[j].pc = "loop" /\ Len(task'[j].articles) >= 1) =>
                /\ JOBS'[j].status = "running"
                /\ JOBS'[j].progress =
                      FloorPercent(task'[j].i, Len(task'[j].articles))
                /\ task'[j].i = 0 => JOBS'[j].progress = 0
                /\ task'[j].i = Len(triggered'[j])
          /\ (j \in DOMAIN JOBS /\ JOBS[j].status = "running"
                /\ JOBS'[j].status = "running"
                /\ JOBS'[j].progress # JOBS[j].progress) =>
                /\ task[j].pc = "loop"
                /\ task'[j].i = task[j].i + 1]_vars

\* C19 witness: two of three articles are handled, the first of them without
\* a flag, and the stored progress is 66
C19_Witness ==
    \E j \in DOMAIN JOBS :
        /\ JOBS[j] = [status |-> "running", progress |-> 66]
        /\ Len(task[j].articles) = 3
        /\ task[j].i = 2
        /\ triggered[j][1] = {}
        /\ triggered[j][2] # {}

====
